---- MODULE Spec2Model ----
(***************************************************************************)
(* File search engine: one search_files request, from folder validation    *)
(* through prompt parsing, the criterion matchers and the final ranking.   *)
(* Strings are sequences of one-character strings, so that the string      *)
(* operations of the source (lower, replace, lstrip, split, count, regex   *)
(* extraction) are computed character by character.                        *)
(***************************************************************************)
EXTENDS Integers, Sequences, FiniteSets, TLC

\* ------------------------------------------------------------------------
\* String primitives (Python str semantics on character sequences)
\* ------------------------------------------------------------------------
UpperCase == <<"A","B","C","D","E","F","G","H","I","J","K","L","M",
               "N","O","P","Q","R","S","T","U","V","W","X","Y","Z">>
LowerCase == <<"a","b","c","d","e","f","g","h","i","j","k","l","m",
               "n","o","p","q","r","s","t","u","v","w","x","y","z">>
Digits == {"0","1","2","3","4","5","6","7","8","9"}
Whitespace == {" ", "\t", "\n"}

\* str.lower() on one character
LowerChar(c) ==
    IF \E i \in 1..Len(UpperCase) : UpperCase[i] = c
    THEN LowerCase[CHOOSE i \in 1..Len(UpperCase) : UpperCase[i] = c]
    ELSE c

\* str.lower()
Lower(s) == SubSeq([i \in 1..Len(s) |-> LowerChar(s[i])], 1, Len(s))

\* regex class \w
IsWordChar(c) ==
    \/ \E i \in 1..Len(LowerCase) : LowerCase[i] = c \/ UpperCase[i] = c
    \/ c \in Digits
    \/ c = "_"

\* s[i:].startswith(p), i counted from 1
MatchAt(s, p, i) ==
    /\ i + Len(p) - 1 <= Len(s)
    /\ \A k \in 1..Len(p) : s[i + k - 1] = p[k]

\* p in s
Contains(s, p) == \E i \in 1..(Len(s) + 1) : MatchAt(s, p, i)

StartsWith(s, p) == MatchAt(s, p, 1)

EndsWith(s, p) == Len(p) <= Len(s) /\ MatchAt(s, p, Len(s) - Len(p) + 1)

\* s[i:] (i counted from 1)
Tail_(s, i) == SubSeq(s, i, Len(s))

\* str.count(p): non-overlapping occurrences, scanning from the left
RECURSIVE CountFrom(_, _, _)
CountFrom(s, p, i) ==
    IF i > Len(s) THEN 0
    ELSE IF MatchAt(s, p, i) THEN 1 + CountFrom(s, p, i + Len(p))
    ELSE CountFrom(s, p, i + 1)

Count(s, p) == IF p = <<>> THEN Len(s) + 1 ELSE CountFrom(s, p, 1)

\* str.replace(old, ''): every non-overlapping occurrence removed, left to right
RECURSIVE RemoveFrom(_, _, _)
RemoveFrom(s, old, i) ==
    IF i > Len(s) THEN <<>>
    ELSE IF MatchAt(s, old, i) THEN RemoveFrom(s, old, i + Len(old))
    ELSE <<s[i]>> \o RemoveFrom(s, old, i + 1)

ReplaceWithEmpty(s, old) == IF old = <<>> THEN s ELSE RemoveFrom(s, old, 1)

\* str.lstrip(c): every leading c removed
RECURSIVE LStrip(_, _)
LStrip(s, c) ==
    IF s # <<>> /\ s[1] = c THEN LStrip(Tail(s), c) ELSE s

\* str.split(): maximal runs of non-whitespace characters
RECURSIVE SplitFrom(_, _, _)
SplitFrom(s, i, cur) ==
    IF i > Len(s) THEN (IF cur = <<>> THEN <<>> ELSE <<cur>>)
    ELSE IF s[i] \in Whitespace
         THEN (IF cur = <<>> THEN <<>> ELSE <<cur>>) \o SplitFrom(s, i + 1, <<>>)
         ELSE SplitFrom(s, i + 1, Append(cur, s[i]))

Split(s) == SplitFrom(s, 1, <<>>)

\* ', '.join(parts)
RECURSIVE JoinComma(_)
JoinComma(parts) ==
    IF parts = <<>> THEN <<>>
    ELSE IF Len(parts) = 1 THEN parts[1]
    ELSE parts[1] \o <<",", " ">> \o JoinComma(Tail(parts))

Range(seq) == {seq[i] : i \in 1..Len(seq)}

Min(a, b) == IF a <= b THEN a ELSE b


\* ------------------------------------------------------------------------
\* Path helpers (os.path on POSIX)
\* ------------------------------------------------------------------------
\* os.path.join(a, b)
PathJoin(a, b) ==
    IF StartsWith(b, <<"/">>) /\ b # <<>> THEN b
    ELSE IF a = <<>> \/ EndsWith(a, <<"/">>) THEN a \o b
    ELSE a \o <<"/">> \o b

\* index of the last "." of name, 0 when there is none
LastDot(name) ==
    IF \E i \in 1..Len(name) : name[i] = "."
    THEN CHOOSE i \in 1..Len(name) :
            name[i] = "." /\ \A k \in (i + 1)..Len(name) : name[k] # "."
    ELSE 0

\* os.path.splitext(name)[1]: from the last dot on, unless only dots precede it
SplitExt(name) ==
    LET d == LastDot(name) IN
    IF d > 0 /\ \E k \in 1..(d - 1) : name[k] # "."
    THEN Tail_(name, d)
    ELSE <<>>

\* os.path.relpath(filepath, folder_path) for a file beneath folder_path
RelPath(filepath, folder_path) ==
    IF StartsWith(filepath, folder_path)
    THEN LStrip(Tail_(filepath, Len(folder_path) + 1), "/")
    ELSE filepath

\* ------------------------------------------------------------------------
\* Directory walker
\* ------------------------------------------------------------------------
\* the denylist of get_valid_files
SkipPatterns ==
    << <<".","c","a","c","h","e">>, <<".","l","o","c","a","l">>, <<".","v","s","c","o","d","e">>, <<".","d","s","_","s","t","o","r","e">>, <<".","v","e","n","v">>, <<".","g","i","t">>,
       <<"v","e","n","v">>, <<"_","_","p","y","c","a","c","h","e","_","_">>, <<"s","i","t","e","-","p","a","c","k","a","g","e","s">>, <<"c","l","o","u","d","s","t","o","r","a","g","e">>, <<"c","l","o","u","d","d","o","c","s">> >>

\* a walker that tests a directory's own name, not its whole path
IsSkippedDirOwnName(root) ==
    LET slashes == { i \in 1..Len(root) : root[i] = "/" }
        from == IF slashes = {} THEN 1
                ELSE (CHOOSE i \in slashes : \A j \in slashes : j <= i) + 1
        name == SubSeq(root, from, Len(root))
    IN \E k \in 1..Len(SkipPatterns) : Contains(Lower(name), SkipPatterns[k])

\* a walker that compares the path with the denylist as it is spelled
IsSkippedDirCaseSensitive(root) ==
    \E k \in 1..Len(SkipPatterns) : Contains(root, SkipPatterns[k])

\* any(pattern in root.lower() for pattern in [...])
IsSkippedDir(root) ==
    LET lowered == Lower(root)
    IN \E k \in 1..Len(SkipPatterns) : Contains(lowered, SkipPatterns[k])

\* file.startswith('.') or file.startswith('~') or file.endswith('.h')
IsSkippedFile(file) ==
    StartsWith(file, <<".">>) \/ StartsWith(file, <<"~">>) \/ EndsWith(file, <<".","h">>)

\* the files one directory of the walk yields
RECURSIVE WalkFiles(_, _, _)
WalkFiles(root, files, folder_path) ==
    IF files = <<>> THEN <<>>
    ELSE LET f == Head(files)
             filepath == PathJoin(root, f.name)
         IN (IF IsSkippedFile(f.name) THEN <<>>
             ELSE << [filepath |-> filepath,
                      rel_path |-> RelPath(filepath, folder_path),
                      filename |-> f.name,
                      file     |-> f] >>)
            \o WalkFiles(root, Tail(files), folder_path)

\* get_valid_files(folder_path) over the directories os.walk visits, in walk
\* order; dirs[k].sub is the directory's path below folder_path ("" for the top)
RECURSIVE WalkDirs(_, _)
WalkDirs(folder_path, dirs) ==
    IF dirs = <<>> THEN <<>>
    ELSE LET d == Head(dirs)
             root == IF d.sub = <<>> THEN folder_path ELSE PathJoin(folder_path, d.sub)
         IN (IF IsSkippedDir(root) THEN <<>>
             ELSE WalkFiles(root, d.files, folder_path))
            \o WalkDirs(folder_path, Tail(dirs))

get_valid_files(folder_path, dirs) == WalkDirs(folder_path, dirs)

\* ------------------------------------------------------------------------
\* Query parser: rule-based fallback
\* ------------------------------------------------------------------------
\* end of the maximal run of word characters starting at i (i - 1 when none)
RECURSIVE WordEnd(_, _)
WordEnd(s, i) ==
    IF i <= Len(s) /\ IsWordChar(s[i]) THEN WordEnd(s, i + 1) ELSE i - 1

\* re.findall(r'\.(\w+)', s): the groups, left to right, non-overlapping
RECURSIVE FindExts(_, _)
FindExts(s, i) ==
    IF i > Len(s) THEN <<>>
    ELSE IF s[i] = "." /\ WordEnd(s, i + 1) >= i + 1
         THEN <<SubSeq(s, i + 1, WordEnd(s, i + 1))>> \o FindExts(s, WordEnd(s, i + 1) + 1)
         ELSE FindExts(s, i + 1)

\* re.sub(r'\.(\w+)', '', s)
RECURSIVE RemoveExts(_, _)
RemoveExts(s, i) ==
    IF i > Len(s) THEN <<>>
    ELSE IF s[i] = "." /\ WordEnd(s, i + 1) >= i + 1
         THEN RemoveExts(s, WordEnd(s, i + 1) + 1)
         ELSE <<s[i]>> \o RemoveExts(s, i + 1)

MinKeywordLen == 2

\* variant: only words of four characters or more are kept
AtLeastFourChars(word) == Len(word) > MinKeywordLen + 1

LongEnough(word) == Len(word) > MinKeywordLen

OrMarkers == << <<" ","o","r"," ">>, <<" ","e","i","t","h","e","r"," ">>, <<" ","a","n","y"," ">> >>

DefaultSequence == << "file_type", "filename", "content" >>

\* variant: the keywords are used for the content criterion only
FallbackContentOnly(prompt) ==
    LET prompt_lower == Lower(prompt)
        exts == FindExts(prompt_lower, 1)
        keywords == SelectSeq(Split(RemoveExts(prompt_lower, 1)), LongEnough)
    IN [file_types        |-> [k \in 1..Len(exts) |-> <<".">> \o exts[k]],
        filename_keywords |-> <<>>,
        content_keywords  |-> keywords,
        search_sequence   |-> DefaultSequence,
        search_logic      |-> IF \E k \in 1..Len(OrMarkers) :
                                    Contains(prompt_lower, OrMarkers[k])
                              THEN "OR" ELSE "AND"]

\* variant: the OR markers are looked up in the prompt as typed
FallbackMarkersAsTyped(prompt) ==
    LET prompt_lower == Lower(prompt)
        exts == FindExts(prompt_lower, 1)
        keywords == SelectSeq(Split(RemoveExts(prompt_lower, 1)), LongEnough)
    IN [file_types        |-> [k \in 1..Len(exts) |-> <<".">> \o exts[k]],
        filename_keywords |-> keywords,
        content_keywords  |-> keywords,
        search_sequence   |-> DefaultSequence,
        search_logic      |-> IF \E k \in 1..Len(OrMarkers) :
                                    Contains(prompt, OrMarkers[k])
                              THEN "OR" ELSE "AND"]

fallback_parse_prompt(prompt) ==
    LET prompt_lower == Lower(prompt)
        exts == FindExts(prompt_lower, 1)
        file_types == [k \in 1..Len(exts) |-> <<".">> \o exts[k]]
        keyword_text == RemoveExts(prompt_lower, 1)
        keywords == SelectSeq(Split(keyword_text), LongEnough)
        search_logic ==
            IF \E k \in 1..Len(OrMarkers) : Contains(prompt_lower, OrMarkers[k])
            THEN "OR" ELSE "AND"
    IN [file_types        |-> file_types,
        filename_keywords |-> keywords,
        content_keywords  |-> keywords,
        search_sequence   |-> DefaultSequence,
        search_logic      |-> search_logic]

\* ------------------------------------------------------------------------
\* Content extractor (dispatch of search_by_content)
\* ------------------------------------------------------------------------
\* A file on disk: name, raw (what a text-mode read returns), doc (what the
\* format's own reader returns), wellformed (that reader succeeds), readable
\* (open succeeds). mimetypes.guess_type decides by extension, as file_ext does.
ReadCap == 50000

WordExts == { <<".","d","o","c","x">>, <<".","d","o","c">> }
SheetExts == { <<".","x","l","s","x">>, <<".","x","l","s">> }
TextExts == { <<".","p","y">>, <<".","j","s">>, <<".","h","t","m","l">>, <<".","c","s","s">>, <<".","x","m","l">>, <<".","y","a","m","l">>, <<".","y","m","l">>, <<".","m","d">>,
              <<".","r","s","t">>, <<".","t","x","t">>, <<".","l","o","g">> }

\* f.read(50000)
ReadText(file) == SubSeq(file.raw, 1, Min(Len(file.raw), ReadCap))

\* the text search_by_content scans for one file; libs is the set of optional
\* reader modules that can be imported. An unreadable file contributes nothing.
ExtractContent(filename, file, libs) ==
    LET file_ext == Lower(SplitExt(filename)) IN
    IF ~file.readable THEN <<>>
    ELSE IF file_ext = <<".","p","d","f">>
         THEN (IF "PyPDF2" \in libs
               THEN (IF file.wellformed THEN file.doc ELSE <<>>)
               ELSE ReadText(file))
    ELSE IF file_ext \in WordExts
         THEN (IF "docx" \in libs /\ file.wellformed THEN file.doc ELSE <<>>)
    ELSE IF file_ext = <<".","j","s","o","n">>
         THEN (IF file.wellformed THEN file.doc ELSE ReadText(file))
    ELSE IF file_ext \in SheetExts
         THEN (IF "openpyxl" \in libs /\ file.wellformed THEN file.doc ELSE <<>>)
    ELSE IF file_ext = <<".","c","s","v">> THEN file.doc
    ELSE IF file_ext \in TextExts THEN ReadText(file)
    ELSE <<>>

\* ------------------------------------------------------------------------
\* Criterion matchers
\* ------------------------------------------------------------------------
FileTypeScore == 15
FilenameScore == 10
ContentScore == 2

DigitChars == <<"0","1","2","3","4","5","6","7","8","9">>

\* str(n) for n >= 0
RECURSIVE IntToStr(_)
IntToStr(n) ==
    IF n < 10 THEN <<DigitChars[n + 1]>>
    ELSE IntToStr(n \div 10) \o <<DigitChars[(n % 10) + 1]>>

\* directory walks a matcher starts: none when its list is empty (the early
\* return of each matcher), one otherwise
WalksFor(wanted) == IF wanted = <<>> THEN 0 ELSE 1

\* file_ext in [ft.lower() for ft in file_types]
ExtRequested(file_ext, file_types) ==
    \E k \in 1..Len(file_types) : Lower(file_types[k]) = file_ext

FileTypeRecord(c) ==
    LET file_ext == Lower(SplitExt(c.filename)) IN
    [file_path       |-> c.filepath,
     relative_path   |-> c.rel_path,
     file_name       |-> c.filename,
     relevance_score |-> FileTypeScore,
     match_details   |-> <<"f","i","l","e"," ","t","y","p","e",":"," ">> \o file_ext,
     search_type     |-> "file_type"]

\* the loop of search_by_file_type: results so far, candidates consumed so far
\* variant: the scan stops once the list is longer than the cap
RECURSIVE FileTypeScanPastCap(_, _, _, _, _)
FileTypeScanPastCap(cands, file_types, max_results, results, consumed) ==
    IF cands = <<>> THEN [results |-> results, consumed |-> consumed]
    ELSE LET c == Head(cands) IN
         IF ExtRequested(Lower(SplitExt(c.filename)), file_types)
         THEN LET r2 == Append(results, FileTypeRecord(c)) IN
              IF Len(r2) > max_results
              THEN [results |-> r2, consumed |-> consumed + 1]
              ELSE FileTypeScanPastCap(Tail(cands), file_types, max_results, r2,
                                       consumed + 1)
         ELSE FileTypeScanPastCap(Tail(cands), file_types, max_results, results,
                                  consumed + 1)

RECURSIVE FileTypeScan(_, _, _, _, _)
FileTypeScan(cands, file_types, max_results, results, consumed) ==
    IF cands = <<>> THEN [results |-> results, consumed |-> consumed]
    ELSE LET c == Head(cands) IN
         IF ExtRequested(Lower(SplitExt(c.filename)), file_types)
         THEN LET r2 == Append(results, FileTypeRecord(c)) IN
              IF Len(r2) >= max_results
              THEN [results |-> r2, consumed |-> consumed + 1]
              ELSE FileTypeScan(Tail(cands), file_types, max_results, r2, consumed + 1)
         ELSE FileTypeScan(Tail(cands), file_types, max_results, results, consumed + 1)

search_by_file_type(folder_path, dirs, file_types, max_results) ==
    IF file_types = <<>> THEN [results |-> <<>>, consumed |-> 0, walks |-> WalksFor(<<>>)]
    ELSE LET scan == FileTypeScan(get_valid_files(folder_path, dirs), file_types,
                                  max_results, <<>>, 0)
         IN [results |-> scan.results, consumed |-> scan.consumed, walks |-> WalksFor(file_types)]

\* matched_keywords of search_by_filename: one entry per list element that matches
MatchedKeywords(filename, keywords) ==
    LET InName(keyword) == Contains(Lower(filename), Lower(keyword))
    IN SelectSeq(keywords, InName)

FilenameRecord(c, keywords) ==
    LET matched == MatchedKeywords(c.filename, keywords) IN
    [file_path       |-> c.filepath,
     relative_path   |-> c.rel_path,
     file_name       |-> c.filename,
     relevance_score |-> FilenameScore * Len(matched),
     match_details   |-> <<"f","i","l","e","n","a","m","e",":"," ">> \o JoinComma(matched),
     search_type     |-> "filename"]

\* the loop of search_by_filename; existing lists the paths to skip
RECURSIVE FilenameScan(_, _, _, _, _, _)
FilenameScan(cands, keywords, existing, max_results, results, consumed) ==
    IF cands = <<>> THEN [results |-> results, consumed |-> consumed]
    ELSE LET c == Head(cands) IN
         IF c.filepath \notin existing /\ MatchedKeywords(c.filename, keywords) # <<>>
         THEN LET r2 == Append(results, FilenameRecord(c, keywords)) IN
              IF Len(r2) >= max_results
              THEN [results |-> r2, consumed |-> consumed + 1]
              ELSE FilenameScan(Tail(cands), keywords, existing, max_results, r2, consumed + 1)
         ELSE FilenameScan(Tail(cands), keywords, existing, max_results, results, consumed + 1)

search_by_filename(folder_path, dirs, keywords, existing_files, max_results) ==
    IF keywords = <<>> THEN [results |-> <<>>, consumed |-> 0, walks |-> WalksFor(<<>>)]
    ELSE LET scan == FilenameScan(get_valid_files(folder_path, dirs), keywords,
                                  Range(existing_files), max_results, <<>>, 0)
         IN [results |-> scan.results, consumed |-> scan.consumed, walks |-> WalksFor(keywords)]

\* relevance_score of search_by_content: count * 2 summed over the keyword list
RECURSIVE ContentRelevance(_, _)
ContentRelevance(content, keywords) ==
    IF keywords = <<>> THEN 0
    ELSE Count(content, Lower(Head(keywords))) * ContentScore
         + ContentRelevance(content, Tail(keywords))

\* content_matches of search_by_content: "keyword(count)" for each keyword found
RECURSIVE ContentMatches(_, _)
ContentMatches(content, keywords) ==
    IF keywords = <<>> THEN <<>>
    ELSE LET count == Count(content, Lower(Head(keywords))) IN
         (IF count > 0
          THEN << Head(keywords) \o <<"(">> \o IntToStr(count) \o <<")">> >>
          ELSE <<>>)
         \o ContentMatches(content, Tail(keywords))

ContentRecord(c, content, keywords) ==
    [file_path       |-> c.filepath,
     relative_path   |-> c.rel_path,
     file_name       |-> c.filename,
     relevance_score |-> ContentRelevance(content, keywords),
     match_details   |-> <<"c","o","n","t","e","n","t",":"," ">> \o JoinComma(ContentMatches(content, keywords)),
     search_type     |-> "content"]

\* the loop of search_by_content: the cap is tested after every file examined
RECURSIVE ContentScan(_, _, _, _, _, _, _)
ContentScan(cands, keywords, existing, max_results, libs, results, consumed) ==
    IF cands = <<>> THEN [results |-> results, consumed |-> consumed]
    ELSE LET c == Head(cands) IN
         IF c.filepath \in existing
         THEN ContentScan(Tail(cands), keywords, existing, max_results, libs,
                          results, consumed + 1)
         ELSE LET content == Lower(ExtractContent(c.filename, c.file, libs))
                  r2 == IF content # <<>> /\ ContentMatches(content, keywords) # <<>>
                        THEN Append(results, ContentRecord(c, content, keywords))
                        ELSE results
              IN IF Len(r2) >= max_results
                 THEN [results |-> r2, consumed |-> consumed + 1]
                 ELSE ContentScan(Tail(cands), keywords, existing, max_results, libs,
                                  r2, consumed + 1)

search_by_content(folder_path, dirs, libs, keywords, existing_files, max_results) ==
    IF keywords = <<>> THEN [results |-> <<>>, consumed |-> 0, walks |-> WalksFor(<<>>)]
    ELSE LET scan == ContentScan(get_valid_files(folder_path, dirs), keywords,
                                 Range(existing_files), max_results, libs, <<>>, 0)
         IN [results |-> scan.results, consumed |-> scan.consumed, walks |-> WalksFor(keywords)]

\* ------------------------------------------------------------------------
\* Query parser: language-model step with fallback
\* ------------------------------------------------------------------------
\* How the language-model step of parse_search_prompt_with_llm ends:
\*   import_error    from openai import OpenAI fails
\*   client_error    OpenAI() or chat.completions.create raises
\*   empty           the response content is None, empty or blank
\*   invalid_json    json.loads raises JSONDecodeError
\*   schema_mismatch SearchParams(**parsed) raises
\*   ok              SearchParams(**parsed) is returned
\* SearchParams() with every field at its default
DefaultParams ==
    [file_types        |-> <<>>,
     filename_keywords |-> <<>>,
     content_keywords  |-> <<>>,
     search_sequence   |-> DefaultSequence,
     search_logic      |-> "AND"]

BeforeJsonImport == { "import_error", "client_error", "empty" }
AfterJsonImport == { "invalid_json", "schema_mismatch" }

\* The function-local name json is bound by the import statement inside the try
\* block. A failure before that statement reaches "except json.JSONDecodeError"
\* with json unbound, and evaluating the except clause raises UnboundLocalError.
parse_search_prompt_with_llm(prompt, llm) ==
    IF llm.outcome = "ok"
    THEN [raised |-> "none", params |-> llm.params]
    ELSE IF llm.outcome \in AfterJsonImport
    THEN [raised |-> "none", params |-> fallback_parse_prompt(prompt)]
    ELSE [raised |-> "UnboundLocalError", params |-> DefaultParams]

parse_search_prompt(prompt, llm) == parse_search_prompt_with_llm(prompt, llm)

\* ------------------------------------------------------------------------
\* Folder validation
\* ------------------------------------------------------------------------
\* variant: only existence is tested
ValidateExistenceOnly(folder_path, kind) ==
    IF kind = "missing"
    THEN << [error |-> <<"F","o","l","d","e","r"," ","p","a","t","h"," ">> \o folder_path \o <<" ","d","o","e","s"," ","n","o","t"," ","e","x","i","s","t">>] >>
    ELSE <<>>

\* kind is what the path names on disk: "missing", "file" or "dir"
validate_folder_path(folder_path, kind) ==
    IF kind = "missing"
    THEN << [error |-> <<"F","o","l","d","e","r"," ","p","a","t","h"," ">> \o folder_path \o <<" ","d","o","e","s"," ","n","o","t"," ","e","x","i","s","t">>] >>
    ELSE IF kind # "dir"
    THEN << [error |-> folder_path \o <<" ","i","s"," ","n","o","t"," ","a"," ","d","i","r","e","c","t","o","r","y">>] >>
    ELSE <<>>

\* ------------------------------------------------------------------------
\* Aggregator
\* ------------------------------------------------------------------------
CapFactor == 10

\* candidate_files: none is Python's None, items the dict's values in insertion
\* order (the keys are the items' file_path)
NoCandidates == [none |-> TRUE, items |-> <<>>]

Paths(records) == {records[k].file_path : k \in 1..Len(records)}

\* {r['file_path']: r for r in results}: a later record of the same path replaces
\* the value, the key keeps its first position
RECURSIVE DictOf(_)
DictOf(results) ==
    IF results = <<>> THEN <<>>
    ELSE LET init == DictOf(SubSeq(results, 1, Len(results) - 1))
             last == results[Len(results)]
         IN IF last.file_path \in Paths(init)
            THEN [k \in 1..Len(init) |->
                    IF init[k].file_path = last.file_path THEN last ELSE init[k]]
            ELSE Append(init, last)

\* variant: no entry is dropped
KeepAll(items, other) == items

\* {path: result for path, result in candidate_files.items() if path in other}
KeepCommon(items, other) ==
    LET InOther(r) == r.file_path \in Paths(other) IN SelectSeq(items, InOther)

\* the matcher a sequence entry runs
RunMatcher(search_type, params, request, dirs, libs) ==
    IF search_type = "file_type"
    THEN search_by_file_type(request.folder_path, dirs, params.file_types,
                             request.max_results * CapFactor)
    ELSE IF search_type = "filename"
    THEN search_by_filename(request.folder_path, dirs, params.filename_keywords, <<>>,
                            request.max_results * CapFactor)
    ELSE search_by_content(request.folder_path, dirs, libs, params.content_keywords, <<>>,
                           request.max_results * CapFactor)

\* whether a sequence entry runs a matcher
IsActive(search_type, params) ==
    \/ search_type = "file_type" /\ params.file_types # <<>>
    \/ search_type = "filename" /\ params.filename_keywords # <<>>
    \/ search_type = "content" /\ params.content_keywords # <<>>

\* variant: the new criterion's record replaces the running one
CombineKeepNew(candidate_files, found, search_logic) ==
    IF candidate_files.none
    THEN [none |-> FALSE, items |-> DictOf(found)]
    ELSE LET InRunning(r) == r.file_path \in Paths(candidate_files.items)
         IN [none |-> FALSE, items |-> SelectSeq(DictOf(found), InRunning)]

\* variant: search_logic "OR" is honoured by a union of the mappings
CombineByLogic(candidate_files, found, search_logic) ==
    IF candidate_files.none
    THEN [none |-> FALSE, items |-> DictOf(found)]
    ELSE IF search_logic = "OR"
    THEN [none |-> FALSE, items |-> DictOf(candidate_files.items \o found)]
    ELSE [none |-> FALSE,
          items |-> LET InFound(r) == r.file_path \in Paths(found)
                    IN SelectSeq(candidate_files.items, InFound)]

\* one matching branch of the loop body: adopt the matcher's mapping when there is
\* no candidate mapping yet, otherwise keep the running entries whose path the
\* matcher returned too
Combine(candidate_files, found, search_logic) ==
    IF candidate_files.none
    THEN [none |-> FALSE, items |-> DictOf(found)]
    ELSE [none |-> FALSE, items |-> KeepCommon(candidate_files.items, DictOf(found))]

\* variant: an entry that runs no matcher seeds the mapping with every valid file
LoopBodySeedAll(search_type, params, request, dirs, libs, candidate_files) ==
    IF IsActive(search_type, params)
    THEN Combine(candidate_files,
                 RunMatcher(search_type, params, request, dirs, libs).results,
                 params.search_logic)
    ELSE IF candidate_files.none
    THEN LET all == get_valid_files(request.folder_path, dirs)
         IN [none |-> FALSE,
             items |-> [k \in 1..Len(all) |->
                          [file_path       |-> all[k].filepath,
                           relative_path   |-> all[k].rel_path,
                           file_name       |-> all[k].filename,
                           relevance_score |-> 0,
                           match_details   |-> <<>>,
                           search_type     |-> "combined"]]]
    ELSE candidate_files

\* variant: a known kind runs its matcher whether or not its set is empty
LoopBodyUnguarded(search_type, params, request, dirs, libs, candidate_files) ==
    IF search_type \in {"file_type", "filename", "content"}
    THEN Combine(candidate_files,
                 RunMatcher(search_type, params, request, dirs, libs).results,
                 params.search_logic)
    ELSE candidate_files

\* one iteration of "for search_type in search_params.search_sequence"
LoopBody(search_type, params, request, dirs, libs, candidate_files) ==
    IF IsActive(search_type, params)
    THEN Combine(candidate_files,
                 RunMatcher(search_type, params, request, dirs, libs).results,
                 params.search_logic)
    ELSE candidate_files

\* type_priority.get(x.get('search_type', 'content'), 0)
PriorityFileType == 3
PriorityFilename == 2
PriorityContent == 1
PriorityUnknown == 0

TypePriority(search_type) ==
    IF search_type = "file_type" THEN PriorityFileType
    ELSE IF search_type = "filename" THEN PriorityFilename
    ELSE IF search_type = "content" THEN PriorityContent
    ELSE PriorityUnknown

\* the sort key compared as Python compares tuples
KeyLess(a, b) ==
    \/ TypePriority(a.search_type) < TypePriority(b.search_type)
    \/ /\ TypePriority(a.search_type) = TypePriority(b.search_type)
       /\ a.relevance_score < b.relevance_score

\* variant: an entry is placed ahead of the entries with an equal key
RECURSIVE InsertDescUnstable(_, _)
InsertDescUnstable(sorted, r) ==
    IF sorted = <<>> THEN <<r>>
    ELSE IF ~KeyLess(r, Head(sorted)) THEN <<r>> \o sorted
    ELSE <<Head(sorted)>> \o InsertDescUnstable(Tail(sorted), r)

\* list.sort(key=..., reverse=True): descending, equal keys keep their order
RECURSIVE InsertDesc(_, _)
InsertDesc(sorted, r) ==
    IF sorted = <<>> THEN <<r>>
    ELSE IF KeyLess(Head(sorted), r) THEN <<r>> \o sorted
    ELSE <<Head(sorted)>> \o InsertDesc(Tail(sorted), r)

RECURSIVE SortDesc(_)
SortDesc(records) ==
    IF records = <<>> THEN <<>>
    ELSE InsertDesc(SortDesc(SubSeq(records, 1, Len(records) - 1)),
                    records[Len(records)])

\* seq[:n]
SliceTo(seq, n) ==
    IF n >= 0 THEN SubSeq(seq, 1, Min(n, Len(seq)))
    ELSE SubSeq(seq, 1, Len(seq) + n)

\* relative_path = file_path.replace(request.folder_path, '').lstrip('/')
RelativePath(file_path, folder_path) ==
    LStrip(ReplaceWithEmpty(file_path, folder_path), "/")

ToSearchResult(result_dict, folder_path) ==
    [file_path       |-> result_dict.file_path,
     relative_path   |-> RelativePath(result_dict.file_path, folder_path),
     file_name       |-> result_dict.file_name,
     relevance_score |-> result_dict.relevance_score,
     match_details   |-> result_dict.match_details,
     search_type     |-> result_dict.search_type]

\* lines 77-105 of search_files: list the mapping, sort, truncate, convert
RankAndConvert(candidate_files, request) ==
    LET dict_results == IF candidate_files.none THEN <<>> ELSE candidate_files.items
        top == SliceTo(SortDesc(dict_results), request.max_results)
    IN [k \in 1..Len(top) |-> ToSearchResult(top[k], request.folder_path)]

\* the whole loop from entry i on
RECURSIVE RunSequence(_, _, _, _, _, _)
RunSequence(i, params, request, dirs, libs, candidate_files) ==
    IF i > Len(params.search_sequence) THEN candidate_files
    ELSE RunSequence(i + 1, params, request, dirs, libs,
                     LoopBody(params.search_sequence[i], params, request, dirs, libs,
                              candidate_files))

\* what search_files returns for parsed criteria params on a valid folder
SearchWith(params, request, dirs, libs) ==
    RankAndConvert(RunSequence(1, params, request, dirs, libs, NoCandidates), request)

\* ------------------------------------------------------------------------
\* Tool wrapper (search_files_tool)
\* ------------------------------------------------------------------------
\* str(e) of the exceptions that reach the wrapper's handler
ExceptionText(name) ==
    IF name = "UnboundLocalError"
    THEN <<"c","a","n","n","o","t"," ","a","c","c","e","s","s"," ","l","o","c","a","l"," ","v","a","r","i","a","b","l","e"," ","'","j","s","o","n","'"," ","w","h","e","r","e"," ","i","t"," ","i","s"," ","n","o","t"," ","a","s","s","o","c","i","a","t","e","d"," ","w","i","t","h"," ","a"," ","v","a","l","u","e">>
    ELSE <<"'","d","i","c","t","'"," ","o","b","j","e","c","t"," ","h","a","s"," ","n","o"," ","a","t","t","r","i","b","u","t","e"," ","'","r","e","l","a","t","i","v","e","_","p","a","t","h","'">>

\* the names os.listdir gives for the folder that are files: the top directory's
\* files, hidden ones included
TopLevelFiles(dirs) ==
    IF dirs # <<>> /\ dirs[1].sub = <<>>
    THEN [k \in 1..Len(dirs[1].files) |-> dirs[1].files[k].name]
    ELSE <<>>

\* whether every entry of the returned list has the attributes of a SearchResult
AllSearchResults(results) ==
    \A k \in 1..Len(results) : "relative_path" \in DOMAIN results[k]

\* What search_files_tool returns once search_files has returned results or
\* raised: the branch taken, the first line of the text (without its leading
\* pictograph) and the relative paths listed. The folders of the model are
\* absolute and normalized, which abspath and normpath leave as they are.
search_files_tool(folder_path, kind, dirs, search_prompt, max_results, raised, results) ==
    IF raised # "none"
    THEN [branch  |-> "search_error",
          message |-> <<"E","r","r","o","r"," ","p","e","r","f","o","r","m","i","n","g"," ","s","e","a","r","c","h",":"," ">> \o ExceptionText(raised),
          entries |-> <<>>]
    ELSE IF results = <<>>
    THEN (IF kind = "missing"
          THEN [branch  |-> "folder_missing",
                message |-> <<"E","r","r","o","r",":"," ","F","o","l","d","e","r"," ","'">> \o folder_path \o <<"'"," ","d","o","e","s"," ","n","o","t"," ","e","x","i","s","t">>,
                entries |-> <<>>]
          ELSE IF kind # "dir"
          THEN [branch  |-> "not_a_directory",
                message |-> <<"E","r","r","o","r",":"," ","'">> \o folder_path \o <<"'"," ","i","s"," ","n","o","t"," ","a"," ","d","i","r","e","c","t","o","r","y">>,
                entries |-> <<>>]
          ELSE LET all_files == TopLevelFiles(dirs)
                   shown == SliceTo(all_files, max_results)
               IN IF all_files # <<>>
                  THEN [branch  |-> "fallback_listing",
                        message |-> <<"F","o","u","n","d"," ">> \o IntToStr(Len(shown)) \o <<" ","f","i","l","e","s",":">>,
                        entries |-> shown]
                  ELSE [branch  |-> "empty_folder",
                        message |-> <<"F","o","l","d","e","r"," ","i","s"," ","e","m","p","t","y">>,
                        entries |-> <<>>])
    ELSE IF ~AllSearchResults(results)
    THEN [branch  |-> "search_error",
          message |-> <<"E","r","r","o","r"," ","p","e","r","f","o","r","m","i","n","g"," ","s","e","a","r","c","h",":"," ">> \o ExceptionText("AttributeError"),
          entries |-> <<>>]
    ELSE [branch  |-> "results",
          message |-> <<"F","o","u","n","d"," ">> \o IntToStr(Len(results)) \o <<" ","f","i","l","e","s"," ","m","a","t","c","h","i","n","g"," ","'">>
                        \o search_prompt \o <<"'",":">>,
          entries |-> [k \in 1..Len(results) |-> results[k].relative_path]]

\* ------------------------------------------------------------------------
\* Inputs: folders on disk, prompts, language-model responses
\* ------------------------------------------------------------------------
TextFile(name, text) ==
    [name |-> name, raw |-> text, doc |-> text, wellformed |-> TRUE, readable |-> TRUE]

\* /r: documents at the top (a.pdf is a binary PDF whose text only a PDF
\* reader yields, doc5.txt cannot be opened), a nested directory named like the
\* root, a version-control directory with a subdirectory, a bytecode cache and
\* a node_modules directory
DirsR ==
    << [sub |-> <<>>, files |-> << TextFile(<<"d","o","c","1",".","p","d","f">>, <<"d","o","c">>),
                                  [name |-> <<"a",".","p","d","f">>, raw |-> <<"%","P","D","F","-","1",".","4">>, doc |-> <<"d","o","c"," ","d","o","c"," ","d","o","c">>,
                                   wellformed |-> TRUE, readable |-> TRUE],
                                  TextFile(<<"d","o","c","2",".","t","x","t">>, <<"x"," ","d","o","c"," ","d","o","c">>),
                                  TextFile(<<"b",".","P","D","F">>, <<"z","z","z">>),
                                  TextFile(<<".","d","o","c",".","p","d","f">>, <<"d","o","c">>),
                                  TextFile(<<"d","o","c",".","h">>, <<"d","o","c">>),
                                  [name |-> <<"d","o","c","5",".","t","x","t">>, raw |-> <<"d","o","c">>, doc |-> <<"d","o","c">>,
                                   wellformed |-> TRUE, readable |-> FALSE] >>],
       [sub |-> <<"s">>, files |-> <<>>],
       [sub |-> <<"s","/","r">>, files |-> << TextFile(<<"d","o","c","3",".","p","d","f">>, <<"D","o","c"," ","d","o","c">>) >>],
       [sub |-> <<".","g","i","t">>, files |-> << TextFile(<<"d","o","c","4",".","p","d","f">>, <<"d","o","c">>) >>],
       [sub |-> <<".","g","i","t","/","s","u","b">>, files |-> << TextFile(<<"d","o","c","7",".","p","d","f">>, <<"d","o","c">>) >>],
       [sub |-> <<"_","_","p","y","c","a","c","h","e","_","_">>, files |-> << TextFile(<<"d","o","c","8",".","p","d","f">>, <<"d","o","c">>) >>],
       [sub |-> <<"n","o","d","e","_","m","o","d","u","l","e","s">>, files |-> << TextFile(<<"d","o","c","6",".","p","d","f">>, <<"d","o","c">>) >>] >>

\* /data: the three documents of the end-to-end scenario
DirsData ==
    << [sub |-> <<>>, files |-> << TextFile(<<"n","o","t","e","s",".","t","x","t">>, <<"m","a","c","h","i","n","e"," ","l","e","a","r","n","i","n","g"," ","b","a","s","i","c","s">>),
                                  TextFile(<<"t","h","e","s","i","s",".","p","d","f">>, <<"a"," ","s","t","u","d","y"," ","o","f"," ","b","i","r","d","s">>),
                                  TextFile(<<"m","l","_","r","e","p","o","r","t",".","p","d","f">>, <<"m","a","c","h","i","n","e"," ","l","e","a","r","n","i","n","g"," ","r","e","s","u","l","t","s">>) >>] >>

\* /m: twelve notes; only the last one is named after the keyword
DirsM ==
    << [sub |-> <<>>, files |-> << TextFile(<<"t","0","1",".","t","x","t">>, <<"k","e","y">>),
                                  TextFile(<<"t","0","2",".","t","x","t">>, <<"k","e","y"," ","k","e","y">>),
                                  TextFile(<<"t","0","3",".","t","x","t">>, <<"k","e","y">>),
                                  TextFile(<<"t","0","4",".","t","x","t">>, <<"k","e","y"," ","k","e","y"," ","k","e","y">>),
                                  TextFile(<<"t","0","5",".","t","x","t">>, <<"k","e","y">>),
                                  TextFile(<<"t","0","6",".","t","x","t">>, <<"k","e","y"," ","k","e","y">>),
                                  TextFile(<<"t","0","7",".","t","x","t">>, <<"k","e","y">>),
                                  TextFile(<<"t","0","8",".","t","x","t">>, <<"k","e","y">>),
                                  TextFile(<<"t","0","9",".","t","x","t">>, <<"k","e","y">>),
                                  TextFile(<<"t","1","0",".","t","x","t">>, <<"k","e","y"," ","k","e","y">>),
                                  TextFile(<<"t","1","1",".","t","x","t">>, <<"k","e","y"," ","k","e","y"," ","k","e","y">>),
                                  TextFile(<<"k","e","y",".","t","x","t">>, <<"k","e","y"," ","k","e","y">>) >>] >>

\* /Venv/p: a project kept under a directory named Venv
DirsVenv ==
    << [sub |-> <<>>, files |-> << TextFile(<<"d","o","c","1",".","p","d","f">>, <<"d","o","c">>) >>] >>

Folders ==
    { [folder_path |-> <<"/","r">>, kind |-> "dir", dirs |-> DirsR],
      [folder_path |-> <<"/","V","e","n","v","/","p">>, kind |-> "dir", dirs |-> DirsVenv],
      [folder_path |-> <<"/","m">>, kind |-> "dir", dirs |-> DirsM],
      [folder_path |-> <<"/","d","a","t","a">>, kind |-> "dir", dirs |-> DirsData],
      [folder_path |-> <<"/","n","o","n","e">>, kind |-> "missing", dirs |-> <<>>],
      [folder_path |-> <<"/","r","/","a",".","p","d","f">>, kind |-> "file", dirs |-> <<>>] }

Prompts ==
    { <<"f","i","n","d"," ","p","d","f"," ","f","i","l","e","s"," ","a","b","o","u","t"," ","m","a","c","h","i","n","e"," ","l","e","a","r","n","i","n","g">>,
      <<".","p","d","f"," ","f","i","l","e","s"," ","a","b","o","u","t"," ","m","a","c","h","i","n","e"," ","l","e","a","r","n","i","n","g">>,
      <<".","p","d","f"," ","d","o","c">>,
      <<"d","o","c">>,
      <<>>,
      <<".","t","x","t"," ","o","r"," ",".","P","D","F"," ","D","o","c">>,
      <<"k","e","y"," ",".","t","x","t">> }

Params(ft, fk, ck, sq, lg) ==
    [file_types |-> ft, filename_keywords |-> fk, content_keywords |-> ck,
     search_sequence |-> sq, search_logic |-> lg]

\* criteria a language-model response can carry
LLMParams ==
    { Params(<<<<".","p","d","f">>>>, <<<<"d","o","c">>>>, <<<<"d","o","c">>>>, DefaultSequence, "AND"),
      Params(<<<<".","p","d","f">>>>, <<<<"d","o","c">>>>, <<<<"d","o","c">>>>, DefaultSequence, "OR"),
      Params(<<>>, <<<<"d","o","c">>, <<"p","d","f">>>>, <<<<"d","o","c">>>>, <<"content", "filename">>, "AND"),
      Params(<<<<".","p","d","f">>>>, <<>>, <<<<"d","o","c">>>>, <<"content", "file_type", "content">>, "OR"),
      Params(<<>>, <<>>, <<>>, DefaultSequence, "AND"),
      Params(<<<<".","p","d","f">>>>, <<<<"d","o","c">>>>, <<<<"d","o","c">>>>, <<"size", "date">>, "AND"),
      Params(<<<<".","P","D","F">>>>, <<<<"d","o","c">>, <<"p","d","f">>>>, <<>>, <<"filename", "file_type">>, "AND"),
      Params(<<<<".","t","x","t">>, <<".","p","d","f">>>>, <<>>, <<<<"l","e","a","r","n","i","n","g">>, <<"m","a","c","h","i","n","e">>>>,
             <<"file_type", "size", "content">>, "OR"),
      Params(<<>>, <<<<"p","d","f">>, <<"d","o","c">>, <<"a">>>>, <<>>, <<"filename">>, "AND"),
      Params(<<<<".","t","x","t">>>>, <<<<"k","e","y">>>>, <<<<"k","e","y">>>>, <<"content", "file_type">>, "AND"),
      Params(<<<<".","t","x","t">>>>, <<<<"k","e","y">>>>, <<>>, DefaultSequence, "AND"),
      Params(<<>>, <<<<"d","o","c">>, <<"D","o","c">>>>, <<>>, <<"filename">>, "AND") }

LLMResponses ==
    [outcome : BeforeJsonImport \union AfterJsonImport, params : {DefaultParams}]
    \union [outcome : {"ok"}, params : LLMParams]

LibSets == { {}, {"PyPDF2", "docx", "openpyxl"} }

MaxResultsBound == 5

\* ------------------------------------------------------------------------
\* State: one search_files(request) call
\* ------------------------------------------------------------------------
VARIABLES
    request,          \* SearchRequest: folder_path, search_prompt, max_results
    disk,             \* what folder_path names: kind and, for a folder, its directories
    libs,             \* optional reader modules that can be imported
    llm,              \* how the language-model step ends for this request
    pc,               \* position in search_files
    search_params,    \* the parsed criteria
    idx,              \* index of the next search_sequence entry
    candidate_files,  \* the running candidate mapping
    calls,            \* the components invoked so far, in order
    raised,           \* the exception that left search_files, "none" otherwise
    result,           \* the returned list
    walks,            \* directory walks started so far
    response          \* what search_files_tool returns for the call

vars == << request, disk, libs, llm, pc, search_params, idx, candidate_files,
           calls, raised, result, walks, response >>

NoResponse == [branch |-> "none", message |-> <<>>, entries |-> <<>>]

\* a request whose max_results is drawn from limits
InitWith(limits) ==
    /\ \E f \in Folders, p \in Prompts, m \in limits :
          /\ request = [folder_path |-> f.folder_path, search_prompt |-> p,
                        max_results |-> m]
          /\ disk = [kind |-> f.kind, dirs |-> f.dirs]
    /\ libs \in LibSets
    /\ llm \in LLMResponses
    /\ pc = "validate"
    /\ search_params = DefaultParams
    /\ idx = 1
    /\ candidate_files = NoCandidates
    /\ calls = <<>>
    /\ raised = "none"
    /\ result = <<>>
    /\ walks = 0
    /\ response = NoResponse

\* max_results in the documented range, from 1 up
Init == InitWith(1..MaxResultsBound)

\* lines 16-21: a validation error is returned as the result
ValidateFails ==
    /\ pc = "validate"
    /\ validate_folder_path(request.folder_path, disk.kind) # <<>>
    /\ result' = validate_folder_path(request.folder_path, disk.kind)
    /\ calls' = Append(calls, "validate_folder_path")
    /\ pc' = "invalid"
    /\ UNCHANGED << request, disk, libs, llm, search_params, idx, candidate_files,
                    raised, walks, response >>

ValidatePasses ==
    /\ pc = "validate"
    /\ validate_folder_path(request.folder_path, disk.kind) = <<>>
    /\ calls' = Append(calls, "validate_folder_path")
    /\ pc' = "parse"
    /\ UNCHANGED << request, disk, libs, llm, search_params, idx, candidate_files,
                    raised, result, walks, response >>

\* line 25: the parsed criteria, or the exception parse_search_prompt lets through
ParseReturns ==
    /\ pc = "parse"
    /\ parse_search_prompt(request.search_prompt, llm).raised = "none"
    /\ search_params' = parse_search_prompt(request.search_prompt, llm).params
    /\ calls' = Append(calls, "parse_search_prompt")
    /\ pc' = "loop"
    /\ UNCHANGED << request, disk, libs, llm, idx, candidate_files, raised, result,
                    walks, response >>

ParseRaises ==
    /\ pc = "parse"
    /\ parse_search_prompt(request.search_prompt, llm).raised # "none"
    /\ raised' = parse_search_prompt(request.search_prompt, llm).raised
    /\ calls' = Append(calls, "parse_search_prompt")
    /\ pc' = "raised"
    /\ UNCHANGED << request, disk, libs, llm, search_params, idx, candidate_files,
                    result, walks, response >>

\* lines 35-46: a sequence entry that runs search_by_file_type
FileTypeStep ==
    /\ pc = "loop"
    /\ idx <= Len(search_params.search_sequence)
    /\ search_params.search_sequence[idx] = "file_type"
    /\ search_params.file_types # <<>>
    /\ candidate_files' = LoopBody("file_type", search_params, request, disk.dirs, libs,
                                   candidate_files)
    /\ calls' = Append(calls, "search_by_file_type")
    /\ walks' = walks + WalksFor(search_params.file_types)
    /\ idx' = idx + 1
    /\ UNCHANGED << request, disk, libs, llm, pc, search_params, raised, result,
                    response >>

\* lines 48-60: a sequence entry that runs search_by_filename
FilenameStep ==
    /\ pc = "loop"
    /\ idx <= Len(search_params.search_sequence)
    /\ search_params.search_sequence[idx] = "filename"
    /\ search_params.filename_keywords # <<>>
    /\ candidate_files' = LoopBody("filename", search_params, request, disk.dirs, libs,
                                   candidate_files)
    /\ calls' = Append(calls, "search_by_filename")
    /\ walks' = walks + WalksFor(search_params.filename_keywords)
    /\ idx' = idx + 1
    /\ UNCHANGED << request, disk, libs, llm, pc, search_params, raised, result,
                    response >>

\* lines 62-74: a sequence entry that runs search_by_content
ContentStep ==
    /\ pc = "loop"
    /\ idx <= Len(search_params.search_sequence)
    /\ search_params.search_sequence[idx] = "content"
    /\ search_params.content_keywords # <<>>
    /\ candidate_files' = LoopBody("content", search_params, request, disk.dirs, libs,
                                   candidate_files)
    /\ calls' = Append(calls, "search_by_content")
    /\ walks' = walks + WalksFor(search_params.content_keywords)
    /\ idx' = idx + 1
    /\ UNCHANGED << request, disk, libs, llm, pc, search_params, raised, result,
                    response >>

\* a sequence entry no branch of the loop body takes
SkipStep ==
    /\ pc = "loop"
    /\ idx <= Len(search_params.search_sequence)
    /\ ~IsActive(search_params.search_sequence[idx], search_params)
    /\ candidate_files' = LoopBody(search_params.search_sequence[idx], search_params,
                                   request, disk.dirs, libs, candidate_files)
    /\ idx' = idx + 1
    /\ UNCHANGED << request, disk, libs, llm, pc, search_params, calls, raised, result,
                    walks, response >>

\* lines 77-105
Finish ==
    /\ pc = "loop"
    /\ idx > Len(search_params.search_sequence)
    /\ result' = RankAndConvert(candidate_files, request)
    /\ pc' = "done"
    /\ UNCHANGED << request, disk, libs, llm, search_params, idx, candidate_files,
                    calls, raised, walks, response >>

\* fastmcp_server.py: the wrapper turns the outcome of search_files into its text
ToolReturns ==
    /\ pc \in {"invalid", "done", "raised"}
    /\ response = NoResponse
    /\ response' = search_files_tool(request.folder_path, disk.kind, disk.dirs,
                                     request.search_prompt, request.max_results,
                                     raised, result)
    /\ UNCHANGED << request, disk, libs, llm, pc, search_params, idx, candidate_files,
                    calls, raised, result, walks >>

Next ==
    \/ ValidateFails
    \/ ValidatePasses
    \/ ParseReturns
    \/ ParseRaises
    \/ FileTypeStep
    \/ FilenameStep
    \/ ContentStep
    \/ SkipStep
    \/ Finish

Spec == Init /\ [][Next]_vars

\* how far below the documented range max_results is drawn
BelowRange == 1

\* max_results as SearchRequest accepts it: an int field without a constraint
InitAny == InitWith((0 - BelowRange)..1)

SpecAny == InitAny /\ [][Next]_vars

\* the longest prompt spelled out character by character
MaxPromptLen == 5

\* characters that exercise the fallback parser: blank, dot, letters in both cases
PromptAlphabet == { " ", ".", "o", "r", "O" }

\* every prompt over the alphabet up to the length bound, and longer ones that
\* mix extensions, separators and markers
ParserPrompts ==
    UNION { [1..n -> PromptAlphabet] : n \in 1..MaxPromptLen }
    \union Prompts
    \union { <<"r","e","p","o","r","t",".","P","D","F"," ","O","R"," ","n","o","t","e","s",".","t","x","t">>, <<"x"," ","e","i","t","h","e","r",".","y">>, <<"a","n","y"," ",".","D","o","c","_","1"," ","a","-","b",".","c"," ",".",".","d"," ",".">>, <<"a">> \o << "\t" >> \o <<"A","N","Y">> \o << "\t" >> \o <<"b"," "," ",".","t","a","r",".","g","z">>,
             <<"E","i","t","h","e","r"," "," ","o","r">>, <<".","a",".","b",".","c"," ","a","b","c",".","D","e","f"," ","g","h","i">>, <<"f","o","r"," ","a","n","y",".","o","n","e"," ","o","r">> }

\* requests whose language-model step reaches the fallback parser
InitParse ==
    /\ \E p \in ParserPrompts :
          request = [folder_path |-> <<"/","d","a","t","a">>, search_prompt |-> p, max_results |-> 1]
    /\ disk = [kind |-> "dir", dirs |-> DirsData]
    /\ libs = {}
    /\ llm \in [outcome : AfterJsonImport, params : {DefaultParams}]
    /\ pc = "validate"
    /\ search_params = DefaultParams
    /\ idx = 1
    /\ candidate_files = NoCandidates
    /\ calls = <<>>
    /\ raised = "none"
    /\ result = <<>>
    /\ walks = 0
    /\ response = NoResponse

NextParse == ValidatePasses \/ ParseReturns

SpecParse == InitParse /\ [][NextParse]_vars

\* a search_files_tool call: search_files as above, then the wrapper's reply
NextTool == Next \/ ToolReturns

SpecTool == Init /\ [][NextTool]_vars

\* ------------------------------------------------------------------------
\* Properties
\* ------------------------------------------------------------------------
\* indices of the sequence entries that run a matcher
ActiveIdx == { i \in 1..Len(search_params.search_sequence) :
                 IsActive(search_params.search_sequence[i], search_params) }

FirstActive == CHOOSE i \in ActiveIdx : \A j \in ActiveIdx : i <= j

LastActive == CHOOSE i \in ActiveIdx : \A j \in ActiveIdx : j <= i

\* what the matcher of sequence entry i returns for this request
MatcherOutput(i) ==
    RunMatcher(search_params.search_sequence[i], search_params, request,
               disk.dirs, libs).results

\* the combined candidates, in the mapping's order
Candidates == IF candidate_files.none THEN <<>> ELSE candidate_files.items

\* result entry r reports the score, explanation and kind of a record of records
ReportedFrom(r, records) ==
    \E j \in 1..Len(records) :
        /\ records[j].file_path = r.file_path
        /\ records[j].relevance_score = r.relevance_score
        /\ records[j].match_details = r.match_details
        /\ records[j].search_type = r.search_type

FallbackUsed == llm.outcome \in AfterJsonImport

\* C1: whenever the language-model step fails, at any point, parsing does not
\* raise and the criteria are exactly fallback_parse_prompt(prompt).
C1_FallbackOnEveryFailure ==
    (pc \in {"loop", "done", "raised"} /\ llm.outcome # "ok")
        => /\ raised = "none"
           /\ search_params = fallback_parse_prompt(request.search_prompt)

C3_OnlyPathsOfEveryMatcher ==
    pc = "done"
        => \A i \in ActiveIdx :
               LET returned == Paths(MatcherOutput(i))
               IN \A k \in 1..Len(result) : result[k].file_path \in returned

C3_Witness ==
    /\ pc = "done"
    /\ Cardinality(ActiveIdx) >= 2
    /\ search_params.search_sequence # DefaultSequence
    /\ result # <<>>
    /\ \E i \in ActiveIdx : Paths(MatcherOutput(i)) \ Paths(Candidates) # {}

\* the ranking key of C4: criterion-kind priority, then relevance score
C4_Priority(kind) ==
    CASE kind = "file_type" -> 3
      [] kind = "filename" -> 2
      [] kind = "content" -> 1
      [] OTHER -> 0

\* candidate a at position i ranks before candidate b at position j
C4_RanksBefore(a, i, b, j) ==
    \/ C4_Priority(a.search_type) > C4_Priority(b.search_type)
    \/ /\ C4_Priority(a.search_type) = C4_Priority(b.search_type)
       /\ a.relevance_score > b.relevance_score
    \/ /\ C4_Priority(a.search_type) = C4_Priority(b.search_type)
       /\ a.relevance_score = b.relevance_score
       /\ i < j

\* position of a returned entry among the combined candidates
C4_Pos(r) == CHOOSE j \in 1..Len(Candidates) : Candidates[j].file_path = r.file_path

\* C4: the returned list has min(max_results, number of candidates) entries,
\* each a candidate, in descending order of (priority, score) with equal keys in
\* discovery order, and every candidate left out ranks after every one returned.
C4_TopRankedStable ==
    pc = "done"
        => /\ Len(result) = Min(request.max_results, Len(Candidates))
           /\ \A k \in 1..Len(result) :
                 /\ result[k].file_path \in Paths(Candidates)
                 /\ ReportedFrom(result[k], Candidates)
           /\ \A k, l \in 1..Len(result) :
                 k < l => C4_RanksBefore(result[k], C4_Pos(result[k]),
                                         result[l], C4_Pos(result[l]))
           /\ \A k \in 1..Len(result) : \A j \in 1..Len(Candidates) :
                 Candidates[j].file_path \notin Paths(result)
                     => C4_RanksBefore(result[k], C4_Pos(result[k]), Candidates[j], j)

\* three of at least ten candidates are returned, a tie is cut by discovery
\* order, and the ranking moved an entry ahead of an earlier-discovered one
C4_Witness ==
    /\ pc = "done"
    /\ request.max_results = 3
    /\ Len(Candidates) >= 10
    /\ Len(result) = 3
    /\ \E j \in 1..Len(Candidates) :
          /\ Candidates[j].file_path \notin Paths(result)
          /\ Candidates[j].relevance_score = result[3].relevance_score
    /\ \E k \in 1..2 : C4_Pos(result[k]) > C4_Pos(result[k + 1])

\* C5: with no active criterion the result on a valid folder is empty.
C5_NoActiveCriterionEmpty ==
    (pc = "done" /\ ActiveIdx = {}) => result = <<>>

\* the keyword and extension sets are non-empty but no sequence entry names one
\* of them, and the folder holds files
C5_Witness ==
    /\ pc = "done"
    /\ ActiveIdx = {}
    /\ search_params.search_sequence # <<>>
    /\ search_params.file_types # <<>>
    /\ get_valid_files(request.folder_path, disk.dirs) # <<>>

\* C6: a missing folder, or a path that is not a directory, yields one error
\* entry whose message tells the two apart; nothing but the validation has run
\* and nothing is raised.
C6_ValidationErrorFirst ==
    (disk.kind # "dir" /\ pc # "validate")
        => /\ pc = "invalid"
           /\ raised = "none"
           /\ calls = << "validate_folder_path" >>
           /\ Len(result) = 1
           /\ Contains(result[1].error, request.folder_path)
           /\ Contains(result[1].error, <<" ","d","o","e","s"," ","n","o","t"," ","e","x","i","s","t">>) <=> disk.kind = "missing"
           /\ Contains(result[1].error, <<" ","i","s"," ","n","o","t"," ","a"," ","d","i","r","e","c","t","o","r","y">>) <=> disk.kind = "file"

C6_Witness == pc = "invalid" /\ disk.kind = "file" /\ Len(result) = 1

FlipLogic(params) ==
    [params EXCEPT !.search_logic = IF @ = "AND" THEN "OR" ELSE "AND"]

C8_RelativePathRootRelative ==
    pc = "done"
        => \A k \in 1..Len(result) :
               /\ ~StartsWith(result[k].relative_path, <<"/">>)
               /\ PathJoin(request.folder_path, result[k].relative_path)
                    = result[k].file_path

PromptFindPdf == <<"f","i","n","d"," ","p","d","f"," ","f","i","l","e","s"," ","a","b","o","u","t"," ","m","a","c","h","i","n","e"," ","l","e","a","r","n","i","n","g">>

\* C9 as stated: the fallback parser turns "find pdf files about machine
\* learning" into file_types [".pdf"], keywords {about, machine, learning} for
\* file names and content, logic AND.
C9_FallbackExampleAsStated ==
    (pc \in {"loop", "done"} /\ FallbackUsed /\ request.search_prompt = PromptFindPdf)
        => /\ search_params.file_types = << <<".","p","d","f">> >>
           /\ Range(search_params.filename_keywords) = { <<"a","b","o","u","t">>, <<"m","a","c","h","i","n","e">>, <<"l","e","a","r","n","i","n","g">> }
           /\ Range(search_params.content_keywords) = { <<"a","b","o","u","t">>, <<"m","a","c","h","i","n","e">>, <<"l","e","a","r","n","i","n","g">> }
           /\ search_params.search_logic = "AND"

\* C9 amended: the fallback parser turns that prompt into no file type (the
\* prompt has no "."), keywords [find, pdf, files, about, machine, learning] for
\* file names and content, logic AND.
C9_FallbackExample ==
    (pc \in {"loop", "done"} /\ FallbackUsed /\ request.search_prompt = PromptFindPdf)
        => /\ search_params.file_types = <<>>
           /\ search_params.filename_keywords
                = << <<"f","i","n","d">>, <<"p","d","f">>, <<"f","i","l","e","s">>, <<"a","b","o","u","t">>, <<"m","a","c","h","i","n","e">>, <<"l","e","a","r","n","i","n","g">> >>
           /\ search_params.content_keywords = search_params.filename_keywords
           /\ search_params.search_sequence = DefaultSequence
           /\ search_params.search_logic = "AND"

C9_Witness ==
    /\ pc = "loop"
    /\ FallbackUsed
    /\ request.search_prompt = PromptFindPdf
    /\ calls = << "validate_folder_path", "parse_search_prompt" >>

PromptPdfAbout == <<".","p","d","f"," ","f","i","l","e","s"," ","a","b","o","u","t"," ","m","a","c","h","i","n","e"," ","l","e","a","r","n","i","n","g">>

\* the end-to-end scenario: the three documents, the query, max_results = 5,
\* criteria from the fallback parser
C10_Scenario ==
    /\ request.folder_path = <<"/","d","a","t","a">>
    /\ disk.dirs = DirsData
    /\ request.search_prompt = PromptPdfAbout
    /\ request.max_results = 5
    /\ FallbackUsed

\* C10 as stated: the scenario returns exactly ml_report.pdf, with the content
\* score 2 x (occurrences of the keywords in its text).
C10_ScenarioAsStated ==
    (pc = "done" /\ C10_Scenario)
        => /\ Len(result) = 1
           /\ result[1].file_name = <<"m","l","_","r","e","p","o","r","t",".","p","d","f">>
           /\ result[1].relevance_score
                = 2 * (Count(<<"m","a","c","h","i","n","e"," ","l","e","a","r","n","i","n","g"," ","r","e","s","u","l","t","s">>, <<"m","a","c","h","i","n","e">>)
                       + Count(<<"m","a","c","h","i","n","e"," ","l","e","a","r","n","i","n","g"," ","r","e","s","u","l","t","s">>, <<"l","e","a","r","n","i","n","g">>))

\* C10 amended: in the scenario the criteria are file_types [".pdf"] and
\* keywords [files, about, machine, learning]; no file name contains a keyword,
\* so the filename matcher returns nothing and the result is empty.
C10_ScenarioEmpty ==
    (pc = "done" /\ C10_Scenario)
        => /\ search_params.file_types = << <<".","p","d","f">> >>
           /\ search_params.filename_keywords
                = << <<"f","i","l","e","s">>, <<"a","b","o","u","t">>, <<"m","a","c","h","i","n","e">>, <<"l","e","a","r","n","i","n","g">> >>
           /\ \A i \in ActiveIdx :
                 search_params.search_sequence[i] = "filename" => MatcherOutput(i) = <<>>
           /\ result = <<>>

C10_Witness ==
    /\ pc = "done"
    /\ C10_Scenario
    /\ calls = << "validate_folder_path", "parse_search_prompt", "search_by_file_type",
                  "search_by_filename", "search_by_content" >>
    /\ \E i \in ActiveIdx :
          <<"/","d","a","t","a","/","m","l","_","r","e","p","o","r","t",".","p","d","f">> \in Paths(MatcherOutput(i))

\* the distinct requested keywords, compared without letter case, that occur
\* in the base name
C11_DistinctMatches(file_name, keywords) ==
    { Lower(keywords[k]) : k \in { j \in 1..Len(keywords) :
                                     Contains(Lower(file_name), Lower(keywords[j])) } }

\* C11: every record of the filename matcher scores 10 x the number of distinct
\* requested keywords found in the base name, and a file is emitted iff that
\* number is at least 1.
C11_FilenameScoreDistinct ==
    pc \in {"loop", "done"}
        => \A i \in ActiveIdx :
              search_params.search_sequence[i] = "filename"
                  => LET out == MatcherOutput(i)
                         walk == get_valid_files(request.folder_path, disk.dirs)
                     IN /\ \A k \in 1..Len(out) :
                              out[k].relevance_score
                                = 10 * Cardinality(C11_DistinctMatches(
                                           out[k].file_name,
                                           search_params.filename_keywords))
                        /\ Len(out) < request.max_results * CapFactor
                              => \A w \in 1..Len(walk) :
                                    walk[w].filepath \in Paths(out)
                                      <=> C11_DistinctMatches(
                                              walk[w].filename,
                                              search_params.filename_keywords) # {}

\* the full path of directory d of the searched tree
DirPath(d) ==
    IF d.sub = <<>> THEN request.folder_path ELSE request.folder_path \o <<"/">> \o d.sub

\* the full path of the file named name in directory d
FilePath(d, name) == DirPath(d) \o <<"/">> \o name

\* the paths of a walk
WalkPaths(walk) == { walk[w].filepath : w \in 1..Len(walk) }

\* the paths the walker yields for the request's folder
Yielded == WalkPaths(get_valid_files(request.folder_path, disk.dirs))

\* the directory's full path contains, without regard to letter case, one of markers
HasMarker(d, markers) ==
    LET path == Lower(DirPath(d)) IN \E m \in markers : Contains(path, m)

\* a base name the walker does not skip
Admissible(name) ==
    /\ name[1] # "."
    /\ name[1] # "~"
    /\ ~(Len(name) >= 2 /\ SubSeq(name, Len(name) - 1, Len(name)) = <<".","h">>)

\* no file of a directory marked by markers is yielded, left among the
\* candidates or returned
C12_NoneFrom(markers) ==
    LET excluded == Yielded \union Paths(Candidates) \union Paths(result)
    IN \A k \in 1..Len(disk.dirs) :
          HasMarker(disk.dirs[k], markers)
              => \A j \in 1..Len(disk.dirs[k].files) :
                    FilePath(disk.dirs[k], disk.dirs[k].files[j].name) \notin excluded

C12_StatedMarkers == { <<".","g","i","t">>, <<"_","_","p","y","c","a","c","h","e","_","_">>, <<"n","o","d","e","_","m","o","d","u","l","e","s">> }

DenylistMarkers ==
    { <<".","c","a","c","h","e">>, <<".","l","o","c","a","l">>, <<".","v","s","c","o","d","e">>, <<".","d","s","_","s","t","o","r","e">>, <<".","v","e","n","v">>, <<".","g","i","t">>, <<"v","e","n","v">>,
      <<"_","_","p","y","c","a","c","h","e","_","_">>, <<"s","i","t","e","-","p","a","c","k","a","g","e","s">>, <<"c","l","o","u","d","s","t","o","r","a","g","e">>, <<"c","l","o","u","d","d","o","c","s">> }

\* C12 as stated: no file under a directory whose path contains .git,
\* __pycache__ or node_modules is yielded by the walker or returned.
C12_MarkedDirsExcluded ==
    pc = "done" => C12_NoneFrom(C12_StatedMarkers)

\* C12 amended: no file under a directory whose full path contains, without
\* regard to case, one of the eleven denylist substrings (.git and __pycache__
\* among them, site-packages the only package-manager marker) is yielded or
\* returned, at any depth beneath it; node_modules is not on the list, and a
\* file under it is yielded like any other.
C12_DenylistedDirsExcluded ==
    pc = "done"
        => /\ C12_NoneFrom(DenylistMarkers)
           /\ LET yielded == Yielded
              IN \A k \in 1..Len(disk.dirs) :
                    ( /\ HasMarker(disk.dirs[k], { <<"n","o","d","e","_","m","o","d","u","l","e","s">> })
                      /\ ~HasMarker(disk.dirs[k], DenylistMarkers) )
                        => \A j \in 1..Len(disk.dirs[k].files) :
                              Admissible(disk.dirs[k].files[j].name)
                                => FilePath(disk.dirs[k], disk.dirs[k].files[j].name)
                                     \in yielded

\* a search over /r returned the file under node_modules while files of the
\* same type and name pattern lie under .git, beneath .git and under __pycache__
C12_Witness ==
    /\ pc = "done"
    /\ search_params.file_types = << <<".","p","d","f">> >>
    /\ <<"/","r","/","n","o","d","e","_","m","o","d","u","l","e","s","/","d","o","c","6",".","p","d","f">> \in Paths(result)
    /\ \E k \in 1..Len(disk.dirs) :
          /\ disk.dirs[k].sub = <<".","g","i","t","/","s","u","b">>
          /\ disk.dirs[k].files # <<>>
    /\ \E k \in 1..Len(disk.dirs) :
          /\ disk.dirs[k].sub = <<"_","_","p","y","c","a","c","h","e","_","_">>
          /\ disk.dirs[k].files # <<>>

\* what the matcher of sequence entry i returns, with the number of walk
\* entries it examined
MatcherRun(i) ==
    RunMatcher(search_params.search_sequence[i], search_params, request,
               disk.dirs, libs)

\* a matcher run out over walk keeps to cap: at most cap records; when the
\* cap is reached the last entry examined is the one that filled it (none is
\* examined for a cap of 0); below the cap the whole walk was examined
C13_WithinCap(out, walk, cap) ==
    /\ Len(out.results) <= cap
    /\ Len(out.results) = cap
          => IF cap = 0 THEN out.consumed = 0
             ELSE /\ out.consumed \in 1..Len(walk)
                  /\ walk[out.consumed].filepath = out.results[cap].file_path
    /\ Len(out.results) < cap => out.consumed = Len(walk)

\* C13 as stated: for every max_results the request model accepts, each
\* matcher run returns at most max_results x 10 records and examines no walk
\* entry after the one that filled the cap.
C13_CapForEveryLimit ==
    pc = "done"
        => LET walk == get_valid_files(request.folder_path, disk.dirs)
           IN \A i \in ActiveIdx :
                 C13_WithinCap(MatcherRun(i), walk, request.max_results * 10)

\* C13 amended: for max_results >= 1 each matcher run returns at most
\* max_results x 10 records and examines no walk entry after the one that
\* filled the cap. For max_results <= 0 the cap is tested only after an
\* append (file type, filename) or after a file was examined (content): the
\* run returns at most one record, the last entry it examined; without a
\* record the file-type and filename matchers examined the whole walk and the
\* content matcher the first entry only.
C13_CapFromOne ==
    pc = "done"
        => LET walk == get_valid_files(request.folder_path, disk.dirs)
           IN \A i \in ActiveIdx :
                 LET out == MatcherRun(i)
                 IN IF request.max_results >= 1
                    THEN C13_WithinCap(out, walk, request.max_results * 10)
                    ELSE /\ Len(out.results) <= 1
                         /\ Len(out.results) = 1
                               => /\ out.consumed \in 1..Len(walk)
                                  /\ walk[out.consumed].filepath
                                       = out.results[1].file_path
                         /\ Len(out.results) = 0
                               => out.consumed
                                    = IF search_params.search_sequence[i] = "content"
                                      THEN Min(1, Len(walk))
                                      ELSE Len(walk)

\* with max_results = 1 a matcher filled its cap of ten records and left walk
\* entries unexamined, while another matcher of the call stayed below the cap
C13_Witness ==
    /\ pc = "done"
    /\ request.max_results = 1
    /\ \E i \in ActiveIdx :
          /\ Len(MatcherRun(i).results) = 10
          /\ MatcherRun(i).consumed
               < Len(get_valid_files(request.folder_path, disk.dirs))
    /\ \E i \in ActiveIdx : Len(MatcherRun(i).results) < 10

\* the positions 1..n in order
Positions(n) == [i \in 1..n |-> i]

\* the reference of C14, position by position on the lower-cased prompt p:
\* an extension starts at a dot followed by a word character and runs to the
\* end of that run of word characters
C14_ExtStart(p, i) == i < Len(p) /\ p[i] = "." /\ IsWordChar(p[i + 1])

C14_ExtEnd(p, i) ==
    CHOOSE j \in (i + 1)..Len(p) :
        /\ \A k \in (i + 1)..j : IsWordChar(p[k])
        /\ j = Len(p) \/ ~IsWordChar(p[j + 1])

C14_FileTypes(p) ==
    LET IsStart(i) == C14_ExtStart(p, i)
        starts == SelectSeq(Positions(Len(p)), IsStart)
    IN [k \in 1..Len(starts) |-> SubSeq(p, starts[k], C14_ExtEnd(p, starts[k]))]

\* the prompt with the extensions taken out
C14_Remainder(p) ==
    LET Kept(k) == ~\E i \in 1..k : C14_ExtStart(p, i) /\ k <= C14_ExtEnd(p, i)
        kept == SelectSeq(Positions(Len(p)), Kept)
    IN [k \in 1..Len(kept) |-> p[kept[k]]]

\* the whitespace-separated tokens of t that are longer than two characters
C14_Keywords(t) ==
    LET Blank(i) == i < 1 \/ i > Len(t) \/ t[i] \in Whitespace
        TokenEnd(i) == CHOOSE j \in i..Len(t) :
                           (\A k \in i..j : ~Blank(k)) /\ Blank(j + 1)
        LongToken(i) == ~Blank(i) /\ Blank(i - 1) /\ TokenEnd(i) - i + 1 > 2
        starts == SelectSeq(Positions(Len(t)), LongToken)
    IN [k \in 1..Len(starts) |-> SubSeq(t, starts[k], TokenEnd(starts[k]))]

\* the reference with the OR markers looked up in text
C14_Reference(prompt, text) ==
    LET p == Lower(prompt)
        keywords == C14_Keywords(C14_Remainder(p))
    IN [file_types        |-> C14_FileTypes(p),
        filename_keywords |-> keywords,
        content_keywords  |-> keywords,
        search_sequence   |-> << "file_type", "filename", "content" >>,
        search_logic      |-> IF \/ Contains(text, <<" ","o","r"," ">>)
                                 \/ Contains(text, <<" ","e","i","t","h","e","r"," ">>)
                                 \/ Contains(text, <<" ","a","n","y"," ">>)
                              THEN "OR" ELSE "AND"]

\* C14 as stated: the fallback criteria equal the reference, with logic OR iff
\* the prompt itself contains " or ", " either " or " any ".
C14_FallbackIsReference ==
    (pc = "loop" /\ FallbackUsed)
        => search_params = C14_Reference(request.search_prompt, request.search_prompt)

\* C14 amended: the fallback criteria equal the reference, with logic OR iff
\* the LOWER-CASED prompt contains " or ", " either " or " any ", so that
\* " OR " and " Any " select OR as well.
C14_FallbackIsReferenceLowered ==
    (pc = "loop" /\ FallbackUsed)
        => search_params
             = C14_Reference(request.search_prompt, Lower(request.search_prompt))

\* the fallback parsed a prompt with two extensions, one of them typed in
\* capitals, a dropped short token and a capitalised marker
C14_Witness ==
    /\ pc = "loop"
    /\ FallbackUsed
    /\ request.search_prompt = <<"r","e","p","o","r","t",".","P","D","F"," ","O","R"," ","n","o","t","e","s",".","t","x","t">>
    /\ search_params.file_types = << <<".","p","d","f">>, <<".","t","x","t">> >>
    /\ search_params.filename_keywords = << <<"r","e","p","o","r","t">>, <<"n","o","t","e","s">> >>
    /\ search_params.search_logic = "OR"

\* a sequence entry of this kind runs a matcher: a known kind with a non-empty set
C15_Runs(kind) ==
    \/ kind = "file_type" /\ search_params.file_types # <<>>
    \/ kind = "filename" /\ search_params.filename_keywords # <<>>
    \/ kind = "content" /\ search_params.content_keywords # <<>>

\* the matcher invocations the first n sequence entries ask for, in order
C15_MatcherCalls(n) ==
    LET running == SelectSeq(SubSeq(search_params.search_sequence, 1, n), C15_Runs)
    IN [k \in 1..Len(running) |->
          CASE running[k] = "file_type" -> "search_by_file_type"
            [] running[k] = "filename" -> "search_by_filename"
            [] running[k] = "content" -> "search_by_content"]

\* after validation and parsing the invocations so far are those of the
\* entries already passed, one walk each, and ranking has not produced a
\* result before the last entry is passed
C15_InOrder ==
    pc \in {"loop", "done"}
        => /\ idx \in 1..(Len(search_params.search_sequence) + 1)
           /\ calls = << "validate_folder_path", "parse_search_prompt" >>
                        \o C15_MatcherCalls(idx - 1)
           /\ walks = Len(C15_MatcherCalls(idx - 1))
           /\ pc = "loop" => result = <<>>
           /\ pc = "done" => idx = Len(search_params.search_sequence) + 1

\* passing an entry that runs no matcher changes neither the candidate
\* mapping nor the invocations nor the walks
C15_SkipLeaves ==
    ( /\ pc = "loop"
      /\ idx <= Len(search_params.search_sequence)
      /\ ~C15_Runs(search_params.search_sequence[idx])
      /\ idx' # idx )
        => /\ candidate_files' = candidate_files
           /\ calls' = calls
           /\ walks' = walks
           /\ result' = result

\* C15: the matchers run one after another in the order of search_sequence,
\* after validation and parsing and before ranking; an entry whose set is
\* empty or whose kind is unknown invokes no matcher, starts no walk and
\* leaves the candidate mapping unchanged.
C15_SequenceOrder == [] C15_InOrder /\ [][C15_SkipLeaves]_vars

\* a call whose sequence names an unknown kind between two kinds that ran, in
\* an order other than the default
C15_Witness ==
    /\ pc = "done"
    /\ search_params.search_sequence = << "file_type", "size", "content" >>
    /\ calls = << "validate_folder_path", "parse_search_prompt",
                  "search_by_file_type", "search_by_content" >>
    /\ walks = 2
    /\ result # <<>>

\* walk entry w on its own satisfies the criterion of this kind
C16_Satisfies(kind, w) ==
    CASE kind = "file_type" ->
           ExtRequested(Lower(SplitExt(w.filename)), search_params.file_types)
      [] kind = "filename" ->
           MatchedKeywords(w.filename, search_params.filename_keywords) # <<>>
      [] kind = "content" ->
           LET content == Lower(ExtractContent(w.filename, w.file, libs))
           IN content # <<>>
              /\ ContentMatches(content, search_params.content_keywords) # <<>>

\* the paths of the non-excluded files that satisfy every active criterion
C16_Qualifying ==
    LET walk == get_valid_files(request.folder_path, disk.dirs)
        kinds == { search_params.search_sequence[i] : i \in ActiveIdx }
    IN { walk[w].filepath :
           w \in { v \in 1..Len(walk) : \A kind \in kinds : C16_Satisfies(kind, walk[v]) } }

\* C16: when at least one criterion is active and at most max_results files
\* satisfy all active criteria, each of them is in the result.
C16_AndSearchComplete ==
    (pc = "done" /\ ActiveIdx # {})
        => LET qualifying == C16_Qualifying
           IN Cardinality(qualifying) <= request.max_results
                 => qualifying \subseteq Paths(result)

\* C17: for a folder that does not exist, or a path that is not a directory,
\* search_files_tool answers from its folder-status branch with "Error: Folder
\* '<path>' does not exist", respectively "'<path>' is not a directory", and
\* never with a generic "Error performing search" text.
C17_FolderStatusReported ==
    (response # NoResponse /\ disk.kind # "dir")
        => /\ ~StartsWith(response.message, <<"E","r","r","o","r"," ","p","e","r","f","o","r","m","i","n","g"," ","s","e","a","r","c","h">>)
           /\ disk.kind = "missing"
                 => /\ response.branch = "folder_missing"
                    /\ response.message
                         = <<"E","r","r","o","r",":"," ","F","o","l","d","e","r"," ","'">> \o request.folder_path \o <<"'"," ","d","o","e","s"," ","n","o","t"," ","e","x","i","s","t">>
           /\ disk.kind = "file"
                 => /\ response.branch = "not_a_directory"
                    /\ Contains(response.message,
                                <<"'">> \o request.folder_path \o <<"'"," ","i","s"," ","n","o","t"," ","a"," ","d","i","r","e","c","t","o","r","y">>)

\* C18: the denylist is tested on the full directory path, search root
\* included. When the root path contains a denylist substring, in any letter
\* case, the walker yields nothing and search_files returns the empty list;
\* otherwise every file of a directory whose path contains none, with a base
\* name that starts with neither "." nor "~" and does not end in ".h", is
\* yielded exactly once.
C18_RootIsTested ==
    pc = "done"
        => LET walk == get_valid_files(request.folder_path, disk.dirs)
               lowered_root == Lower(request.folder_path)
           IN IF \E m \in DenylistMarkers : Contains(lowered_root, m)
              THEN walk = <<>> /\ result = <<>>
              ELSE \A k \in 1..Len(disk.dirs) :
                      ~HasMarker(disk.dirs[k], DenylistMarkers)
                          => \A j \in 1..Len(disk.dirs[k].files) :
                                Admissible(disk.dirs[k].files[j].name)
                                    => Cardinality(
                                         { w \in 1..Len(walk) :
                                             walk[w].filepath
                                               = FilePath(disk.dirs[k],
                                                          disk.dirs[k].files[j].name) })
                                         = 1

\* a search below /Venv for a file the folder holds, with the type and the
\* name asked for, came back empty
C18_Witness ==
    /\ pc = "done"
    /\ request.folder_path = <<"/","V","e","n","v","/","p">>
    /\ disk.dirs[1].files[1].name = <<"d","o","c","1",".","p","d","f">>
    /\ search_params.file_types = << <<".","p","d","f">> >>
    /\ search_params.filename_keywords = << <<"d","o","c">> >>
    /\ calls = << "validate_folder_path", "parse_search_prompt", "search_by_file_type",
                  "search_by_filename", "search_by_content" >>
    /\ result = <<>>
====
